---- MODULE Spec2Model ----
(***************************************************************************)
(* LinkedInDataExtractorV2 (src/linkedin_data_extractor_v2.py): the        *)
(* JSON-LD extractor, the five entity parsers, the meta-tag extractor, the *)
(* reconciler (_combine_data_sources) and the request pipeline              *)
(* (extract_linkedin_data).                                                *)
(*                                                                         *)
(* Python values are tagged records [t, v]: t is the Python type, v the    *)
(* payload.  A Python str is a sequence of one-character strings, so that  *)
(* ==, in, startswith, split, strip and re.search are computed on the      *)
(* characters.  A Python dict with literal keys is a function from key     *)
(* names to values; {} is the empty function <<>>.                         *)
(***************************************************************************)
EXTENDS Integers, Sequences, FiniteSets, TLC

VARIABLES
  pc,              \* position of extract_linkedin_data: idle, fetched, jsonld, meta, combined, done
  url,             \* the url argument of the request
  page_url,        \* self.browser_manager.page.url
  html_content,    \* the page content: [scripts, metas, title, rejected]
  url_type,        \* detect_url_type(url)
  json_ld_data,    \* result of _extract_json_ld_data
  meta_data,       \* result of _extract_meta_data
  combined_data,   \* result of _combine_data_sources
  extracted_data,  \* the envelope extract_linkedin_data returns
  ppc,             \* position of a single entity-parser call: ready, parsed
  p_kind,          \* the parser called (the url_type it is dispatched for)
  p_tree,          \* its json_data argument
  p_result,        \* what it returned, with whether its except clause ran
  reqs,            \* the locals of each of two overlapping calls of extract_linkedin_data
  page             \* self.browser_manager.page while the calls overlap: [url, content]

vars == <<pc, url, page_url, html_content, url_type, json_ld_data, meta_data,
          combined_data, extracted_data, ppc, p_kind, p_tree, p_result, reqs, page>>

pipeVars == <<pc, url, page_url, html_content, url_type, json_ld_data, meta_data,
              combined_data, extracted_data>>

parserVars == <<ppc, p_kind, p_tree, p_result>>

overlapVars == <<reqs, page>>

----------------------------------------------------------------------------
(* String literals of the source, as character sequences.                  *)

S_Person == <<"P","e","r","s","o","n">>
S_Organization == <<"O","r","g","a","n","i","z","a","t","i","o","n">>
S_DiscussionForumPosting == <<"D","i","s","c","u","s","s","i","o","n","F","o","r","u","m","P","o","s","t","i","n","g">>
S_Article == <<"A","r","t","i","c","l","e">>
S_FollowHttps == <<"h","t","t","p","s",":","/","/","s","c","h","e","m","a",".","o","r","g","/","F","o","l","l","o","w","A","c","t","i","o","n">>
S_FollowHttp == <<"h","t","t","p",":","/","/","s","c","h","e","m","a",".","o","r","g","/","F","o","l","l","o","w","A","c","t","i","o","n">>
S_LikeAction == <<"L","i","k","e","A","c","t","i","o","n">>
S_CommentAction == <<"C","o","m","m","e","n","t","A","c","t","i","o","n">>
S_NA == <<"N","/","A">>
S_og_prefix == <<"o","g",":">>
S_twitter_prefix == <<"t","w","i","t","t","e","r",":">>
S_og_title == <<"o","g",":","t","i","t","l","e">>
S_og_description == <<"o","g",":","d","e","s","c","r","i","p","t","i","o","n">>
S_og_image == <<"o","g",":","i","m","a","g","e">>
S_og_url == <<"o","g",":","u","r","l">>
S_og_type == <<"o","g",":","t","y","p","e">>
S_twitter_title == <<"t","w","i","t","t","e","r",":","t","i","t","l","e">>
S_twitter_description == <<"t","w","i","t","t","e","r",":","d","e","s","c","r","i","p","t","i","o","n">>
S_twitter_image == <<"t","w","i","t","t","e","r",":","i","m","a","g","e">>
S_description == <<"d","e","s","c","r","i","p","t","i","o","n">>
S_re_in == <<"l","i","n","k","e","d","i","n",".","c","o","m","/","i","n","/">>
S_re_company == <<"l","i","n","k","e","d","i","n",".","c","o","m","/","c","o","m","p","a","n","y","/">>
S_re_newsletters == <<"l","i","n","k","e","d","i","n",".","c","o","m","/","n","e","w","s","l","e","t","t","e","r","s","/">>

----------------------------------------------------------------------------
(* Python values and the operations the source applies to them.            *)

JStr(s) == [t |-> "str", v |-> s]
JNum(n) == [t |-> "num", v |-> n]
JList(l) == [t |-> "list", v |-> l]
JDict(d) == [t |-> "dict", v |-> d]
JNull == [t |-> "null", v |-> 0]

EmptyStr == JStr(<<>>)
EmptyList == JList(<<>>)
EmptyDict == JDict(<<>>)

IsDict(x) == x.t = "dict"
IsList(x) == x.t = "list"
IsStr(x) == x.t = "str"

\* key in d, for a dict d
HasKey(d, k) == k \in DOMAIN d.v

\* d.get(k, default), for a dict d
Get(d, k, default) == IF k \in DOMAIN d.v THEN d.v[k] ELSE default

\* data[k] = val on the plain mapping a parser or the reconciler builds
Put(data, k, val) == (k :> val) @@ data

\* bool(x)
Truthy(x) ==
  CASE x.t = "str" -> x.v # <<>>
    [] x.t = "list" -> x.v # <<>>
    [] x.t = "dict" -> DOMAIN x.v # {}
    [] x.t = "num" -> x.v # 0
    [] OTHER -> FALSE

\* sub in s, for two strs
Contains(sub, s) ==
  \E i \in 0..(Len(s) - Len(sub)) : SubSeq(s, i + 1, i + Len(sub)) = sub

\* s.startswith(p)
StartsWith(s, p) == Len(s) >= Len(p) /\ SubSeq(s, 1, Len(p)) = p

SetMin(S) == CHOOSE m \in S : \A n \in S : m <= n

\* what a parser hands back: the mapping it built, and whether its
\* except clause ran (the source prints an error line there)
Returned(data, fault) == [data |-> data, fault |-> fault]

----------------------------------------------------------------------------
(* The scan of json_data['@graph'] for the first item of a target type.    *)
(* Iterating a list gives its items; item.get raises AttributeError on an  *)
(* item that is no dict.  Iterating a str or a dict gives strs (which have *)
(* no get); iterating a number or None raises TypeError.                   *)

\* GraphScan without the test of the item's @type: the first dict item matches
GraphScanAnyNode(graph, target) ==
  IF IsList(graph)
  THEN LET hits == {i \in 1..Len(graph.v) : TRUE}
       IN IF hits = {} THEN [kind |-> "none", item |-> JNull]
          ELSE IF IsDict(graph.v[SetMin(hits)])
               THEN [kind |-> "match", item |-> graph.v[SetMin(hits)]]
               ELSE [kind |-> "fault", item |-> JNull]
  ELSE IF IsStr(graph) \/ IsDict(graph)
       THEN IF Truthy(graph) THEN [kind |-> "fault", item |-> JNull]
            ELSE [kind |-> "none", item |-> JNull]
       ELSE [kind |-> "fault", item |-> JNull]

GraphScan(graph, target) ==
  IF IsList(graph)
  THEN LET hits == {i \in 1..Len(graph.v) :
                      \/ ~IsDict(graph.v[i])
                      \/ Get(graph.v[i], "@type", JNull) = JStr(target)}
       IN IF hits = {} THEN [kind |-> "none", item |-> JNull]
          ELSE IF IsDict(graph.v[SetMin(hits)])
               THEN [kind |-> "match", item |-> graph.v[SetMin(hits)]]
               ELSE [kind |-> "fault", item |-> JNull]
  ELSE IF IsStr(graph) \/ IsDict(graph)
       THEN IF Truthy(graph) THEN [kind |-> "fault", item |-> JNull]
            ELSE [kind |-> "none", item |-> JNull]
       ELSE [kind |-> "fault", item |-> JNull]

----------------------------------------------------------------------------
(* _parse_profile_json_ld                                                  *)

\* node['image'].get('contentUrl', '') under the isinstance guard
ProfileImage(node) ==
  IF HasKey(node, "image") /\ IsDict(node.v["image"])
  THEN ("image_url" :> Get(node.v["image"], "contentUrl", EmptyStr))
  ELSE <<>>

ProfileLocation(item) ==
  IF HasKey(item, "address") /\ IsDict(item.v["address"])
  THEN ("location" :> Get(item.v["address"], "addressLocality", EmptyStr))
       @@ ("country" :> Get(item.v["address"], "addressCountry", EmptyStr))
  ELSE <<>>

\* work.get('member', {}).get(...) raises AttributeError when member is no dict
WorkFaults(work) ==
  IsDict(work) /\ HasKey(work, "member") /\ ~IsDict(work.v["member"])

WorkInfo(work) ==
  JDict(("company_name" :> Get(work, "name", EmptyStr))
        @@ ("company_url" :> Get(work, "url", EmptyStr))
        @@ ("description" :> Get(Get(work, "member", EmptyDict), "description", EmptyStr))
        @@ ("start_date" :> Get(Get(work, "member", EmptyDict), "startDate", EmptyStr)))

ProfileWorksFor(item) ==
  IF HasKey(item, "worksFor") /\ IsList(item.v["worksFor"])
  THEN LET ws == item.v["worksFor"].v
           kept == SelectSeq(ws, IsDict)
       IN IF \E i \in 1..Len(ws) : WorkFaults(ws[i])
          THEN Returned(<<>>, TRUE)
          ELSE Returned(("works_for" :> JList([i \in 1..Len(kept) |-> WorkInfo(kept[i])])), FALSE)
  ELSE Returned(<<>>, FALSE)

\* the follower count of a profile: only the https:// FollowAction string
ProfileFollowers(node) ==
  IF /\ HasKey(node, "interactionStatistic")
     /\ IsDict(node.v["interactionStatistic"])
     /\ Get(node.v["interactionStatistic"], "interactionType", JNull) = JStr(S_FollowHttps)
  THEN ("followers" :> Get(node.v["interactionStatistic"], "userInteractionCount", JNum(0)))
  ELSE <<>>

\* ProfileBase with a field only for a key the node holds
ProfileBaseOnlyPresent(node) ==
  (IF HasKey(node, "name") THEN ("name" :> node.v["name"]) ELSE <<>>)
  @@ (IF HasKey(node, "jobTitle") THEN ("job_title" :> node.v["jobTitle"]) ELSE <<>>)
  @@ (IF HasKey(node, "description") THEN ("description" :> node.v["description"]) ELSE <<>>)
  @@ (IF HasKey(node, "url") THEN ("url" :> node.v["url"]) ELSE <<>>)

ProfileBase(node) ==
  ("name" :> Get(node, "name", EmptyStr))
  @@ ("job_title" :> Get(node, "jobTitle", EmptyList))
  @@ ("description" :> Get(node, "description", EmptyStr))
  @@ ("url" :> Get(node, "url", EmptyStr))

\* ProfileGraphItem with the mapping cleared in the except clause
ProfileGraphItemDiscard(item) ==
  IF ProfileWorksFor(item).fault THEN Returned(<<>>, TRUE)
  ELSE Returned(ProfileFollowers(item) @@ ProfileWorksFor(item).data
                @@ ProfileLocation(item) @@ ProfileImage(item) @@ ProfileBase(item), FALSE)

\* the Person item found in @graph
ProfileGraphItem(item) ==
  LET sofar == ProfileLocation(item) @@ ProfileImage(item) @@ ProfileBase(item)
      wf == ProfileWorksFor(item)
  IN IF wf.fault THEN Returned(sofar, TRUE)
     ELSE Returned(ProfileFollowers(item) @@ wf.data @@ sofar, FALSE)

\* the direct Person structure
ProfileDirect(json_data) ==
  Returned(ProfileFollowers(json_data) @@ ProfileImage(json_data) @@ ProfileBase(json_data), FALSE)

parse_profile_json_ld(json_data) ==
  IF ~IsDict(json_data) THEN Returned(<<>>, TRUE)
  ELSE IF HasKey(json_data, "@graph")
  THEN LET scan == GraphScan(json_data.v["@graph"], S_Person)
       IN CASE scan.kind = "match" -> ProfileGraphItem(scan.item)
            [] scan.kind = "fault" -> Returned(<<>>, TRUE)
            [] OTHER -> Returned(<<>>, FALSE)
  ELSE IF Get(json_data, "@type", JNull) = JStr(S_Person)
  THEN ProfileDirect(json_data)
  ELSE Returned(<<>>, FALSE)

----------------------------------------------------------------------------
(* _parse_company_json_ld                                                  *)

CompanyLogo(node) ==
  IF HasKey(node, "logo") /\ IsDict(node.v["logo"])
  THEN ("logo_url" :> Get(node.v["logo"], "contentUrl", EmptyStr))
  ELSE <<>>

CompanyAddress(item) ==
  IF HasKey(item, "address") /\ IsDict(item.v["address"])
  THEN ("address" :> JDict(("street" :> Get(item.v["address"], "streetAddress", EmptyStr))
                          @@ ("city" :> Get(item.v["address"], "addressLocality", EmptyStr))
                          @@ ("region" :> Get(item.v["address"], "addressRegion", EmptyStr))
                          @@ ("postal_code" :> Get(item.v["address"], "postalCode", EmptyStr))
                          @@ ("country" :> Get(item.v["address"], "addressCountry", EmptyStr))))
  ELSE <<>>

CompanyEmployees(node) ==
  IF HasKey(node, "numberOfEmployees") /\ IsDict(node.v["numberOfEmployees"])
  THEN ("employee_count" :> Get(node.v["numberOfEmployees"], "value", JNum(0)))
  ELSE <<>>

CompanyBase(node) ==
  ("name" :> Get(node, "name", EmptyStr))
  @@ ("description" :> Get(node, "description", EmptyStr))
  @@ ("url" :> Get(node, "url", EmptyStr))
  @@ ("slogan" :> Get(node, "slogan", EmptyStr))

CompanyGraphItem(item) ==
  Returned(CompanyEmployees(item) @@ CompanyAddress(item) @@ CompanyLogo(item) @@ CompanyBase(item), FALSE)

CompanyDirect(json_data) ==
  Returned(CompanyEmployees(json_data) @@ CompanyLogo(json_data) @@ CompanyBase(json_data), FALSE)

parse_company_json_ld(json_data) ==
  IF ~IsDict(json_data) THEN Returned(<<>>, TRUE)
  ELSE IF HasKey(json_data, "@graph")
  THEN LET scan == GraphScan(json_data.v["@graph"], S_Organization)
       IN CASE scan.kind = "match" -> CompanyGraphItem(scan.item)
            [] scan.kind = "fault" -> Returned(<<>>, TRUE)
            [] OTHER -> Returned(<<>>, FALSE)
  ELSE IF Get(json_data, "@type", JNull) = JStr(S_Organization)
  THEN CompanyDirect(json_data)
  ELSE Returned(<<>>, FALSE)

----------------------------------------------------------------------------
(* The list-shaped interactionStatistic of a post or an article.           *)

\* needle in x: a substring of a str, an item of a list, a key of a dict;
\* TypeError on a number or None
InOutcome(needle, key, x) ==
  CASE x.t = "str" -> IF Contains(needle, x.v) THEN "yes" ELSE "no"
    [] x.t = "list" -> IF \E i \in 1..Len(x.v) : x.v[i] = JStr(needle) THEN "yes" ELSE "no"
    [] x.t = "dict" -> IF key \in DOMAIN x.v THEN "yes" ELSE "no"
    [] OTHER -> "fault"

\* one pass of the loop body over an item of the list
InteractionStep(interaction, data) ==
  IF ~IsDict(interaction) THEN Returned(data, FALSE)
  ELSE LET ty == Get(interaction, "interactionType", EmptyStr)
           cnt == Get(interaction, "userInteractionCount", JNum(0))
           like == InOutcome(S_LikeAction, "LikeAction", ty)
       IN CASE like = "fault" -> Returned(data, TRUE)
            [] like = "yes" -> Returned(Put(data, "likes", cnt), FALSE)
            [] OTHER -> IF InOutcome(S_CommentAction, "CommentAction", ty) = "yes"
                        THEN Returned(Put(data, "comments_count", cnt), FALSE)
                        ELSE Returned(data, FALSE)

RECURSIVE InteractionLoop(_, _, _)
InteractionLoop(items, i, data) ==
  IF i > Len(items) THEN Returned(data, FALSE)
  ELSE LET step == InteractionStep(items[i], data)
       IN IF step.fault THEN step ELSE InteractionLoop(items, i + 1, step.data)

InteractionStats(json_data, data) ==
  IF HasKey(json_data, "interactionStatistic") /\ IsList(json_data.v["interactionStatistic"])
  THEN InteractionLoop(json_data.v["interactionStatistic"].v, 1, data)
  ELSE Returned(data, FALSE)

----------------------------------------------------------------------------
(* _parse_post_json_ld                                                     *)

PostBase(json_data) ==
  ("headline" :> Get(json_data, "headline", EmptyStr))
  @@ ("article_body" :> Get(json_data, "articleBody", EmptyStr))
  @@ ("date_published" :> Get(json_data, "datePublished", EmptyStr))
  @@ ("url" :> Get(json_data, "@id", EmptyStr))
  @@ ("comment_count" :> Get(json_data, "commentCount", JNum(0)))

\* the follower count of a post's author: only the http:// FollowAction string
PostAuthorFollowers(author) ==
  IF /\ HasKey(author, "interactionStatistic")
     /\ IsDict(author.v["interactionStatistic"])
     /\ Get(author.v["interactionStatistic"], "interactionType", JNull) = JStr(S_FollowHttp)
  THEN ("author_followers" :> Get(author.v["interactionStatistic"], "userInteractionCount", JNum(0)))
  ELSE <<>>

\* author.get('image', {}).get('url', '') raises when image is no dict
PostAuthor(json_data) ==
  IF HasKey(json_data, "author") /\ IsDict(json_data.v["author"])
  THEN LET author == json_data.v["author"]
       IN IF HasKey(author, "image") /\ ~IsDict(author.v["image"])
          THEN Returned(<<>>, TRUE)
          ELSE Returned(PostAuthorFollowers(author)
                        @@ ("author" :> JDict(("name" :> Get(author, "name", EmptyStr))
                                             @@ ("url" :> Get(author, "url", EmptyStr))
                                             @@ ("image_url" :> IF HasKey(author, "image")
                                                                THEN Get(author.v["image"], "url", EmptyStr)
                                                                ELSE EmptyStr))),
                        FALSE)
  ELSE Returned(<<>>, FALSE)

CommentFaults(comment) ==
  /\ IsDict(comment)
  /\ \/ HasKey(comment, "author") /\ ~IsDict(comment.v["author"])
     \/ HasKey(comment, "interactionStatistic") /\ ~IsDict(comment.v["interactionStatistic"])

CommentData(comment) ==
  JDict(("text" :> Get(comment, "text", EmptyStr))
        @@ ("date_published" :> Get(comment, "datePublished", EmptyStr))
        @@ ("author_name" :> Get(Get(comment, "author", EmptyDict), "name", EmptyStr))
        @@ ("likes" :> Get(Get(comment, "interactionStatistic", EmptyDict), "userInteractionCount", JNum(0))))

PostComments(json_data) ==
  IF HasKey(json_data, "comment") /\ IsList(json_data.v["comment"])
  THEN LET cs == json_data.v["comment"].v
           kept == SelectSeq(cs, IsDict)
       IN IF \E i \in 1..Len(cs) : CommentFaults(cs[i])
          THEN Returned(<<>>, TRUE)
          ELSE Returned(("comments" :> JList([i \in 1..Len(kept) |-> CommentData(kept[i])])), FALSE)
  ELSE Returned(<<>>, FALSE)

\* post_data.get('headline', 'Unknown')[:50] in the closing print, inside the
\* try: a str or a list can be sliced, any other value raises
HeadlinePrintFaults(data) ==
  "headline" \in DOMAIN data /\ ~(IsStr(data["headline"]) \/ IsList(data["headline"]))

parse_post_json_ld(json_data) ==
  IF ~IsDict(json_data) THEN Returned(<<>>, TRUE)
  ELSE IF Get(json_data, "@type", JNull) = JStr(S_DiscussionForumPosting)
  THEN LET base == PostBase(json_data)
           au == PostAuthor(json_data)
           co == PostComments(json_data)
           st == InteractionStats(json_data, co.data @@ au.data @@ base)
       IN IF au.fault THEN Returned(base, TRUE)
          ELSE IF co.fault THEN Returned(au.data @@ base, TRUE)
          ELSE IF st.fault THEN st
          ELSE Returned(st.data, HeadlinePrintFaults(st.data))
  ELSE Returned(<<>>, FALSE)

----------------------------------------------------------------------------
(* _parse_newsletter_json_ld                                               *)

NewsletterBase(json_data) ==
  ("headline" :> Get(json_data, "headline", EmptyStr))
  @@ ("name" :> Get(json_data, "name", EmptyStr))
  @@ ("url" :> Get(json_data, "url", EmptyStr))
  @@ ("date_published" :> Get(json_data, "datePublished", EmptyStr))
  @@ ("date_modified" :> Get(json_data, "dateModified", EmptyStr))
  @@ ("comment_count" :> Get(json_data, "commentCount", JNum(0)))

NewsletterImage(json_data) ==
  IF HasKey(json_data, "image") /\ IsDict(json_data.v["image"])
  THEN ("image_url" :> Get(json_data.v["image"], "url", EmptyStr))
  ELSE <<>>

\* the follower count of an article's author: only the https:// FollowAction string
NewsletterAuthorFollowers(author) ==
  IF /\ HasKey(author, "interactionStatistic")
     /\ IsDict(author.v["interactionStatistic"])
     /\ Get(author.v["interactionStatistic"], "interactionType", JNull) = JStr(S_FollowHttps)
  THEN ("author_followers" :> Get(author.v["interactionStatistic"], "userInteractionCount", JNum(0)))
  ELSE <<>>

NewsletterAuthor(json_data) ==
  IF HasKey(json_data, "author") /\ IsDict(json_data.v["author"])
  THEN NewsletterAuthorFollowers(json_data.v["author"])
       @@ ("author" :> JDict(("name" :> Get(json_data.v["author"], "name", EmptyStr))
                            @@ ("url" :> Get(json_data.v["author"], "url", EmptyStr))))
  ELSE <<>>

parse_newsletter_json_ld(json_data) ==
  IF ~IsDict(json_data) THEN Returned(<<>>, TRUE)
  ELSE IF Get(json_data, "@type", JNull) = JStr(S_Article)
  THEN InteractionStats(json_data,
         NewsletterAuthor(json_data) @@ NewsletterImage(json_data) @@ NewsletterBase(json_data))
  ELSE Returned(<<>>, FALSE)

----------------------------------------------------------------------------
(* _parse_generic_json_ld                                                  *)

GenericCommon(json_data) ==
  [k \in {"name", "description", "url", "headline", "datePublished"} \cap DOMAIN json_data.v
     |-> json_data.v[k]]

\* image.get('contentUrl') or image.get('url', '') for a dict, the str itself for a str
GenericImage(json_data) ==
  IF ~HasKey(json_data, "image") THEN <<>>
  ELSE IF IsDict(json_data.v["image"])
       THEN ("image_url" :> IF Truthy(Get(json_data.v["image"], "contentUrl", JNull))
                            THEN json_data.v["image"].v["contentUrl"]
                            ELSE Get(json_data.v["image"], "url", EmptyStr))
       ELSE IF IsStr(json_data.v["image"])
            THEN ("image_url" :> json_data.v["image"])
            ELSE <<>>

parse_generic_json_ld(json_data) ==
  IF ~IsDict(json_data) THEN Returned(<<>>, TRUE)
  ELSE Returned(GenericImage(json_data) @@ GenericCommon(json_data)
                @@ ("type" :> Get(json_data, "@type", EmptyStr))
                @@ ("context" :> Get(json_data, "@context", EmptyStr))
                @@ ("id" :> Get(json_data, "@id", EmptyStr)),
                FALSE)

----------------------------------------------------------------------------
(* The dispatch of _extract_json_ld_data on url_type.                      *)

DataType(ut) ==
  IF ut \in {"profile", "company", "post", "newsletter"} THEN ut ELSE "generic"

ParseByType(ut, json_data) ==
  CASE ut = "profile" -> parse_profile_json_ld(json_data)
    [] ut = "company" -> parse_company_json_ld(json_data)
    [] ut = "post" -> parse_post_json_ld(json_data)
    [] ut = "newsletter" -> parse_newsletter_json_ld(json_data)
    [] OTHER -> parse_generic_json_ld(json_data)

----------------------------------------------------------------------------
(* _extract_json_ld_data.  A script element is a candidate                 *)
(* [kind, tree]: "nostring" when script.string is None or empty,           *)
(* "malformed" when json.loads raises JSONDecodeError, "raises" when       *)
(* json.loads raises another Exception (RecursionError on nesting deeper   *)
(* than the interpreter's limit, ValueError on an integer literal longer   *)
(* than the int-conversion limit), "valid" when it returns tree.           *)

NotFound ==
  [found |-> FALSE, raw_json |-> JNull, parsed_data |-> <<>>, data_type |-> "None"]

\* the candidates at which the for loop stops: a successful parse (break) or
\* an exception that only the outer except Exception catches
Stops(scripts) ==
  {i \in 1..Len(scripts) : scripts[i].kind \in {"valid", "raises"}}

\* extract_json_ld_data going on to the next candidate after an empty parse
extract_json_ld_data_skip_empty(scripts, ut) ==
  LET used == {i \in Stops(scripts) :
                 \/ scripts[i].kind = "raises"
                 \/ ParseByType(ut, scripts[i].tree).data # <<>>}
  IN IF used = {} THEN NotFound
     ELSE IF scripts[SetMin(used)].kind = "raises" THEN NotFound
          ELSE [found |-> TRUE,
                raw_json |-> scripts[SetMin(used)].tree,
                parsed_data |-> ParseByType(ut, scripts[SetMin(used)].tree).data,
                data_type |-> DataType(ut)]

extract_json_ld_data(scripts, ut) ==
  IF Stops(scripts) = {} THEN NotFound
  ELSE LET c == scripts[SetMin(Stops(scripts))]
       IN IF c.kind = "raises" THEN NotFound
          ELSE [found |-> TRUE,
                raw_json |-> c.tree,
                parsed_data |-> ParseByType(ut, c.tree).data,
                data_type |-> DataType(ut)]

----------------------------------------------------------------------------
(* _extract_meta_data.  A meta element is [name, property, content], each  *)
(* a str or None (JNull) when the attribute is absent.                     *)

NoMeta ==
  [open_graph |-> <<>>, twitter |-> <<>>, other_meta |-> <<>>,
   title |-> EmptyStr, description |-> EmptyStr]

\* meta.get('name') or meta.get('property')
MetaName(meta) == IF Truthy(meta.name) THEN meta.name ELSE meta.property

\* MetaStep with the pair tested for presence (is not None), not for truth
MetaStepKeepEmpty(md, meta) ==
  IF MetaName(meta) # JNull /\ meta.content # JNull
  THEN IF StartsWith(MetaName(meta).v, S_og_prefix)
       THEN [md EXCEPT !.open_graph = Put(@, MetaName(meta).v, meta.content)]
       ELSE IF StartsWith(MetaName(meta).v, S_twitter_prefix)
            THEN [md EXCEPT !.twitter = Put(@, MetaName(meta).v, meta.content)]
            ELSE [md EXCEPT !.other_meta = Put(@, MetaName(meta).v, meta.content)]
  ELSE md

\* one pass of the loop over soup.find_all('meta')
MetaStep(md, meta) ==
  IF Truthy(MetaName(meta)) /\ Truthy(meta.content)
  THEN IF StartsWith(MetaName(meta).v, S_og_prefix)
       THEN [md EXCEPT !.open_graph = Put(@, MetaName(meta).v, meta.content)]
       ELSE IF StartsWith(MetaName(meta).v, S_twitter_prefix)
            THEN [md EXCEPT !.twitter = Put(@, MetaName(meta).v, meta.content)]
            ELSE [md EXCEPT !.other_meta = Put(@, MetaName(meta).v, meta.content)]
  ELSE md

RECURSIVE MetaLoop(_, _, _)
MetaLoop(metas, i, md) ==
  IF i > Len(metas) THEN md ELSE MetaLoop(metas, i + 1, MetaStep(md, metas[i]))

\* soup.find('meta', attrs={'name': 'description'}).get('content', '')
MetaDescription(metas) ==
  LET hits == {i \in 1..Len(metas) : metas[i].name = JStr(S_description)}
  IN IF hits = {} THEN EmptyStr
     ELSE IF metas[SetMin(hits)].content = JNull THEN EmptyStr
          ELSE metas[SetMin(hits)].content

extract_meta_data(html) ==
  [MetaLoop(html.metas, 1, NoMeta) EXCEPT
     !.title = IF html.title = JNull THEN EmptyStr ELSE html.title,
     !.description = MetaDescription(html.metas)]

----------------------------------------------------------------------------
(* _combine_data_sources                                                   *)

\* bucket.get(key, '') on a meta bucket, whose keys are strs
BucketGet(bucket, key) == IF key \in DOMAIN bucket THEN bucket[key] ELSE EmptyStr

Seed(jld) == IF jld.found THEN jld.parsed_data ELSE <<>>

\* OgFields with og:description stored under the entity's own key
OgFieldsOverwrite(og) ==
  IF DOMAIN og # {}
  THEN ("og_title" :> BucketGet(og, S_og_title))
       @@ ("description" :> BucketGet(og, S_og_description))
       @@ ("og_image" :> BucketGet(og, S_og_image))
       @@ ("og_url" :> BucketGet(og, S_og_url))
       @@ ("og_type" :> BucketGet(og, S_og_type))
  ELSE <<>>

OgFields(og) ==
  IF DOMAIN og # {}
  THEN ("og_title" :> BucketGet(og, S_og_title))
       @@ ("og_description" :> BucketGet(og, S_og_description))
       @@ ("og_image" :> BucketGet(og, S_og_image))
       @@ ("og_url" :> BucketGet(og, S_og_url))
       @@ ("og_type" :> BucketGet(og, S_og_type))
  ELSE <<>>

\* TwitterFields without the test of the bucket
TwitterFieldsAlways(tw) ==
  ("twitter_title" :> BucketGet(tw, S_twitter_title))
  @@ ("twitter_description" :> BucketGet(tw, S_twitter_description))
  @@ ("twitter_image" :> BucketGet(tw, S_twitter_image))

TwitterFields(tw) ==
  IF DOMAIN tw # {}
  THEN ("twitter_title" :> BucketGet(tw, S_twitter_title))
       @@ ("twitter_description" :> BucketGet(tw, S_twitter_description))
       @@ ("twitter_image" :> BucketGet(tw, S_twitter_image))
  ELSE <<>>

PageFields(md) ==
  ("page_title" :> md.title) @@ ("page_description" :> md.description)

\* the supplement step; meta_data always holds its five keys, so it is truthy
Supplement(data, md) ==
  PageFields(md) @@ TwitterFields(md.twitter) @@ OgFields(md.open_graph) @@ data

Whitespace == {" ", "\t", "\n", "\r"}

RECURSIVE LStrip(_)
LStrip(s) ==
  IF s # <<>> /\ Head(s) \in Whitespace THEN LStrip(Tail(s)) ELSE s

RECURSIVE RStrip(_)
RStrip(s) ==
  IF s # <<>> /\ s[Len(s)] \in Whitespace THEN RStrip(SubSeq(s, 1, Len(s) - 1)) ELSE s

\* s.strip()
Strip(s) == RStrip(LStrip(s))

\* s.split('|')[0]
FirstSegment(s) ==
  LET bars == {i \in 1..Len(s) : s[i] = "|"}
  IN IF bars = {} THEN s ELSE SubSeq(s, 1, SetMin(bars) - 1)

\* NewsletterName without the strip of the first segment
NewsletterNameUntrimmed(title) ==
  IF title # <<>> /\ (\E i \in 1..Len(title) : title[i] = "|")
  THEN FirstSegment(title)
  ELSE title

\* the newsletter name taken from og:title
NewsletterName(title) ==
  IF title # <<>> /\ (\E i \in 1..Len(title) : title[i] = "|")
  THEN Strip(FirstSegment(title))
  ELSE title

\* NewsletterTrigger without the test of found
NewsletterTriggerAnyFound(ut, jld) == ut = "newsletter"

NewsletterTrigger(ut, jld) == ut = "newsletter" /\ ~jld.found

\* NewsletterFallback with the description taken from the page's meta description
NewsletterFallbackPageDescription(data, jld, md, ut) ==
  IF NewsletterTrigger(ut, jld) /\ DOMAIN md.open_graph # {}
  THEN ("name" :> JStr(NewsletterName(BucketGet(md.open_graph, S_og_title).v)))
       @@ ("description" :> md.description)
       @@ ("image_url" :> BucketGet(md.open_graph, S_og_image))
       @@ ("url" :> BucketGet(md.open_graph, S_og_url))
       @@ ("author" :> JDict(("name" :> JStr(S_NA)) @@ ("url" :> JStr(S_NA))))
       @@ ("date_published" :> JStr(S_NA))
       @@ data
  ELSE data

NewsletterFallback(data, jld, md, ut) ==
  IF NewsletterTrigger(ut, jld) /\ DOMAIN md.open_graph # {}
  THEN ("name" :> JStr(NewsletterName(BucketGet(md.open_graph, S_og_title).v)))
       @@ ("description" :> BucketGet(md.open_graph, S_og_description))
       @@ ("image_url" :> BucketGet(md.open_graph, S_og_image))
       @@ ("url" :> BucketGet(md.open_graph, S_og_url))
       @@ ("author" :> JDict(("name" :> JStr(S_NA)) @@ ("url" :> JStr(S_NA))))
       @@ ("date_published" :> JStr(S_NA))
       @@ data
  ELSE data

\* RegexGroup with the class [^/]+: the group runs through a '?'
RegexGroupSlashOnly(lit, s) ==
  LET starts == {i \in 1..(Len(s) - Len(lit)) :
                   /\ SubSeq(s, i, i + Len(lit) - 1) = lit
                   /\ s[i + Len(lit)] # "/"}
  IN IF starts = {} THEN JNull
     ELSE LET b == SetMin(starts) + Len(lit)
              ends == {j \in b..Len(s) : s[j] = "/"}
          IN JStr(SubSeq(s, b, IF ends = {} THEN Len(s) ELSE SetMin(ends) - 1))

\* re.search(lit + r'([^/?]+)', s): the leftmost place where lit is followed
\* by at least one character other than '/' and '?'; group(1) runs to the
\* next such character or to the end.  None (JNull) without a match.
RegexGroup(lit, s) ==
  LET starts == {i \in 1..(Len(s) - Len(lit)) :
                   /\ SubSeq(s, i, i + Len(lit) - 1) = lit
                   /\ s[i + Len(lit)] \notin {"/", "?"}}
  IN IF starts = {} THEN JNull
     ELSE LET b == SetMin(starts) + Len(lit)
              ends == {j \in b..Len(s) : s[j] \in {"/", "?"}}
          IN JStr(SubSeq(s, b, IF ends = {} THEN Len(s) ELSE SetMin(ends) - 1))

\* the literal of the pattern each url_type searches for; <<>> for no branch
BackfillPattern(ut) ==
  CASE ut = "profile" -> S_re_in
    [] ut = "company" -> S_re_company
    [] ut = "newsletter" -> S_re_newsletters
    [] OTHER -> <<>>

UsernameBackfill(data, ut, purl) ==
  IF /\ BackfillPattern(ut) # <<>>
     /\ ~("username" \in DOMAIN data /\ Truthy(data["username"]))
     /\ RegexGroup(BackfillPattern(ut), purl) # JNull
  THEN Put(data, "username", RegexGroup(BackfillPattern(ut), purl))
  ELSE data

combine_data_sources(jld, md, ut, purl) ==
  UsernameBackfill(NewsletterFallback(Supplement(Seed(jld), md), jld, md, ut), ut, purl)

----------------------------------------------------------------------------
(* The browser manager (browser_manager.py is not part of the sources):    *)
(* detect_url_type is a pattern match over the URL path, and a successful  *)
(* navigation leaves the page at the requested URL.                        *)

S_blank == <<"a","b","o","u","t",":","b","l","a","n","k">>

detect_url_type(u) ==
  IF Contains(<<"/","i","n","/">>, u) THEN "profile"
  ELSE IF Contains(<<"/","c","o","m","p","a","n","y","/">>, u) THEN "company"
  ELSE IF Contains(<<"/","p","o","s","t","s","/">>, u) THEN "post"
  ELSE IF Contains(<<"/","n","e","w","s","l","e","t","t","e","r","s","/">>, u) THEN "newsletter"
  ELSE "unknown"

----------------------------------------------------------------------------
(* The pages and URLs the requests are made on.                            *)

MaxScripts == 2

Obj1(k, x) == JDict(k :> x)

Chars(a, b) == JStr(<<a, b>>)

WebPageNode == Obj1("@type", JStr(<<"W","e","b","P","a","g","e">>))

TPerson ==
  JDict(("@type" :> JStr(S_Person)) @@ ("name" :> Chars("A", "n"))
        @@ ("description" :> Chars("d", "1")))

TArticle ==
  JDict(("@type" :> JStr(S_Article)) @@ ("name" :> Chars("N", "1"))
        @@ ("author" :> Obj1("name", Chars("B", "o"))))

TOrgGraph ==
  Obj1("@graph", JList(<<WebPageNode,
                         JDict(("@type" :> JStr(S_Organization)) @@ ("name" :> Chars("C", "o"))
                               @@ ("numberOfEmployees" :> Obj1("value", JNum(500))))>>))

TNoTarget == Obj1("@graph", JList(<<WebPageNode>>))

DocTrees == {TPerson, TArticle, TOrgGraph, TNoTarget}

Candidates ==
  {[kind |-> k, tree |-> JNull] : k \in {"nostring", "malformed", "raises"}}
  \cup {[kind |-> "valid", tree |-> tr] : tr \in DocTrees}

ScriptLists == UNION {[1..n -> Candidates] : n \in 0..MaxScripts}

Meta(n, p, c) == [name |-> n, property |-> p, content |-> c]

T_AI == <<"A","I"," ","I","n","s","i","d","e","r"," ","|"," ","L","i","n","k","e","d","I","n">>

MetaDocs ==
  { [metas |-> <<>>, title |-> JNull],
    [metas |-> <<Meta(JNull, JStr(S_og_title), JStr(T_AI)),
                 Meta(JNull, JStr(S_og_description), Chars("d", "2")),
                 Meta(JStr(S_twitter_description), JNull, Chars("d", "3")),
                 Meta(JStr(S_description), JNull, Chars("d", "4"))>>,
     title |-> Chars("T", "1")],
    [metas |-> <<Meta(JNull, JStr(S_og_title), JStr(<<" ","A"," ">>)),
                 Meta(JNull, JStr(S_og_url), Chars("u", "1")),
                 Meta(JStr(S_description), JNull, EmptyStr)>>,
     title |-> JNull],
    [metas |-> <<Meta(JNull, JStr(S_og_type), Chars("t", "y")),
                 Meta(JStr(S_twitter_title), JNull, Chars("t", "w")),
                 Meta(EmptyStr, JStr(S_og_type), Chars("t", "2")),
                 Meta(JNull, JNull, Chars("x", "x"))>>,
     title |-> Chars("T", "2")],
    [metas |-> <<Meta(JNull, JStr(S_og_title), JStr(<<" ","a","\t","|","b","|"," ","c">>))>>,
     title |-> JNull] }

\* a page text html.parser rejects (it holds a marked section such as
\* "<![ x ]>"): BeautifulSoup(html_content, 'html.parser') raises on it, so
\* no element of it is ever found
RejectedDoc == [scripts |-> <<>>, metas |-> <<>>, title |-> JNull, rejected |-> TRUE]

HtmlDocs ==
  {[scripts |-> s, metas |-> m.metas, title |-> m.title, rejected |-> FALSE] :
     s \in ScriptLists, m \in MetaDocs}
  \cup {RejectedDoc}

\* BeautifulSoup(html_content, 'html.parser') raises ParserRejectedMarkup
SoupRejects(html) == html.rejected

S_host == <<"h","t","t","p","s",":","/","/","w","w","w",".","l","i","n","k","e","d","i","n",".","c","o","m">>

Jdoe == <<"j","d","o","e">>

UrlPaths ==
  { <<"/","i","n","/">> \o Jdoe,
    <<"/","i","n","/">> \o Jdoe \o <<"?","t","r","k","=","a","b","c">>,
    <<"/","i","n","/">> \o Jdoe \o <<"/">>,
    <<"/","i","n","/">>,
    <<"/","c","o","m","p","a","n","y","/","a","c","/","a","b","o","u","t">>,
    <<"/","n","e","w","s","l","e","t","t","e","r","s","/","a","i","-","7">>,
    <<"/","p","o","s","t","s","/","p","1">>,
    <<"/","f","e","e","d","/">> }

Urls == {S_host \o p : p \in UrlPaths}

----------------------------------------------------------------------------
(* extract_linkedin_data, one await after the other.                       *)

Unset == <<>>

\* the envelope built before the extraction steps
Envelope(u, ut, popup) ==
  [url |-> u, url_type |-> ut, popup_closed |-> popup, json_ld_data |-> <<>>,
   meta_data |-> <<>>, combined_data |-> <<>>, extraction_success |-> FALSE]

\* the envelope returned from the except clause
ErrorEnvelope(u) == [url |-> u, error |-> "str(e)", success |-> FALSE]

\* SuccessFlag broadened to a reconciler that produced a name
SuccessFlagOrName(jld, combined) == jld.found \/ "name" \in DOMAIN combined

\* json_ld_data.get('found', False)
SuccessFlag(jld, combined) == jld.found

Init ==
  /\ pc = "idle"
  /\ url = <<>>
  /\ page_url = S_blank
  /\ html_content = Unset
  /\ url_type = "None"
  /\ json_ld_data = Unset
  /\ meta_data = Unset
  /\ combined_data = Unset
  /\ extracted_data = Unset
  /\ ppc = "unused"
  /\ p_kind = "None"
  /\ p_tree = JNull
  /\ p_result = Returned(<<>>, FALSE)
  /\ reqs = <<>>
  /\ page = <<>>

\* navigate_to_with_popup_close, get_page_content and detect_url_type succeed
Navigate(u, doc, popup) ==
  /\ pc = "idle"
  /\ url' = u
  /\ page_url' = u
  /\ html_content' = doc
  /\ url_type' = detect_url_type(u)
  /\ extracted_data' = Envelope(u, detect_url_type(u), popup)
  /\ pc' = "fetched"
  /\ UNCHANGED <<json_ld_data, meta_data, combined_data>>
  /\ UNCHANGED <<parserVars, overlapVars>>

\* navigation or page retrieval raises: the except clause returns the error
\* envelope; the page is left where it was or at the requested URL
FetchFault(u, moved) ==
  /\ pc = "idle"
  /\ url' = u
  /\ page_url' = IF moved THEN u ELSE page_url
  /\ extracted_data' = ErrorEnvelope(u)
  /\ pc' = "done"
  /\ UNCHANGED <<html_content, url_type, json_ld_data, meta_data, combined_data>>
  /\ UNCHANGED <<parserVars, overlapVars>>

\* _extract_json_ld_data builds its soup inside try: a rejected text leaves
\* the initial json_ld_data
ExtractJsonLd ==
  /\ pc = "fetched"
  /\ json_ld_data' = IF SoupRejects(html_content) THEN NotFound
                      ELSE extract_json_ld_data(html_content.scripts, url_type)
  /\ extracted_data' = [extracted_data EXCEPT !.json_ld_data = json_ld_data']
  /\ pc' = "jsonld"
  /\ UNCHANGED <<url, page_url, html_content, url_type, meta_data, combined_data>>
  /\ UNCHANGED <<parserVars, overlapVars>>

ExtractMeta ==
  /\ pc = "jsonld"
  /\ ~SoupRejects(html_content)
  /\ meta_data' = extract_meta_data(html_content)
  /\ extracted_data' = [extracted_data EXCEPT !.meta_data = meta_data']
  /\ pc' = "meta"
  /\ UNCHANGED <<url, page_url, html_content, url_type, json_ld_data, combined_data>>
  /\ UNCHANGED <<parserVars, overlapVars>>

\* _extract_meta_data builds its soup outside any try: the exception reaches
\* the except clause of extract_linkedin_data, which returns the error envelope
ExtractMetaFault ==
  /\ pc = "jsonld"
  /\ SoupRejects(html_content)
  /\ extracted_data' = ErrorEnvelope(url)
  /\ pc' = "done"
  /\ UNCHANGED <<url, page_url, html_content, url_type, json_ld_data, meta_data, combined_data>>
  /\ UNCHANGED <<parserVars, overlapVars>>

Combine ==
  /\ pc = "meta"
  /\ combined_data' = combine_data_sources(json_ld_data, meta_data, url_type, page_url)
  /\ extracted_data' = [extracted_data EXCEPT !.combined_data = combined_data']
  /\ pc' = "combined"
  /\ UNCHANGED <<url, page_url, html_content, url_type, json_ld_data, meta_data>>
  /\ UNCHANGED <<parserVars, overlapVars>>

SetSuccess ==
  /\ pc = "combined"
  /\ extracted_data' =
       [extracted_data EXCEPT !.extraction_success = SuccessFlag(json_ld_data, combined_data)]
  /\ pc' = "done"
  /\ UNCHANGED <<url, page_url, html_content, url_type, json_ld_data, meta_data, combined_data>>
  /\ UNCHANGED <<parserVars, overlapVars>>

\* the caller has the envelope; the extractor is ready for its next request
NextRequest ==
  /\ pc = "done"
  /\ pc' = "idle"
  /\ url' = <<>>
  /\ html_content' = Unset
  /\ url_type' = "None"
  /\ json_ld_data' = Unset
  /\ meta_data' = Unset
  /\ combined_data' = Unset
  /\ extracted_data' = Unset
  /\ UNCHANGED page_url
  /\ UNCHANGED <<parserVars, overlapVars>>

Next ==
  \/ pc = "idle" /\ \E u \in Urls, doc \in HtmlDocs, popup \in BOOLEAN : Navigate(u, doc, popup)
  \/ pc = "idle" /\ \E u \in Urls, moved \in BOOLEAN : FetchFault(u, moved)
  \/ ExtractJsonLd
  \/ ExtractMeta
  \/ ExtractMetaFault
  \/ Combine
  \/ SetSuccess
  \/ NextRequest

Spec == Init /\ [][Next]_vars

----------------------------------------------------------------------------
(* The entity parsers on their own: one call of the parser url_type        *)
(* dispatches to, on a tree drawn from the shapes below.                   *)

\* the options of an optional key: absent, or present with a value of vals
Opt(k, vals) == {<<>>} \cup {(k :> x) : x \in vals}

S_FollowLower == <<"h","t","t","p","s",":","/","/","s","c","h","e","m","a",".","o","r","g","/","f","o","l","l","o","w","a","c","t","i","o","n">>
S_LikeHttp == <<"h","t","t","p",":","/","/","s","c","h","e","m","a",".","o","r","g","/","L","i","k","e","A","c","t","i","o","n">>
S_CommentHttp == <<"h","t","t","p",":","/","/","s","c","h","e","m","a",".","o","r","g","/","C","o","m","m","e","n","t","A","c","t","i","o","n">>

Stat(ty, n) == JDict(("interactionType" :> ty) @@ ("userInteractionCount" :> JNum(n)))

\* single-object interaction statistics
FollowStats ==
  { Stat(JStr(S_FollowHttps), 5), Stat(JStr(S_FollowHttp), 6), Stat(JStr(S_FollowLower), 7),
    Stat(JStr(S_LikeHttp), 8), Obj1("interactionType", JStr(S_FollowHttps)),
    JList(<<Stat(JStr(S_FollowHttps), 5)>>) }

\* list-shaped interaction statistics
ListStats ==
  { JList(<<Stat(JStr(S_LikeHttp), 3), Stat(JStr(S_CommentHttp), 2), Chars("x", "y")>>),
    JList(<<Stat(JNull, 4)>>),
    JList(<<Stat(JStr(S_LikeHttp), 3), Stat(JNum(1), 4), Stat(JStr(S_CommentHttp), 2)>>),
    Stat(JStr(S_LikeHttp), 3) }

GoodWork ==
  JDict(("name" :> Chars("C", "o")) @@ ("url" :> Chars("u", "c"))
        @@ ("member" :> Obj1("startDate", Chars("2", "0"))))

WorksForShapes ==
  { JList(<<GoodWork, Chars("x", "y"), Obj1("name", Chars("C", "2"))>>),
    JList(<<GoodWork, Obj1("member", Chars("m", "m"))>>) }

AddressNode ==
  JDict(("addressLocality" :> Chars("L", "A")) @@ ("addressCountry" :> Chars("U", "S"))
        @@ ("streetAddress" :> Chars("1", "a")))

PersonNodes ==
  { JDict(("@type" :> JStr(S_Person)) @@ n @@ w @@ i @@ a @@ s) :
      n \in Opt("name", {Chars("A", "n")}),
      w \in Opt("worksFor", WorksForShapes),
      i \in Opt("image", {Obj1("contentUrl", Chars("i", "m")), Chars("i", "s")}),
      a \in Opt("address", {AddressNode}),
      s \in Opt("interactionStatistic", FollowStats) }

OrgNodes ==
  { JDict(("@type" :> JStr(S_Organization)) @@ n @@ l @@ a @@ e) :
      n \in Opt("name", {Chars("C", "o")}),
      l \in Opt("logo", {Obj1("contentUrl", Chars("l", "g"))}),
      a \in Opt("address", {AddressNode}),
      e \in Opt("numberOfEmployees", {Obj1("value", JNum(500)), JNum(9)}) }

PostAuthors ==
  {Chars("a", "u")}
  \cup { JDict(("name" :> Chars("B", "o")) @@ i @@ s) :
           i \in Opt("image", {Obj1("url", Chars("i", "m"))}),
           s \in Opt("interactionStatistic", FollowStats) }
  \cup { JDict(("name" :> Chars("B", "o")) @@ ("image" :> Chars("i", "s"))) }

CommentShapes ==
  { JList(<<JDict(("text" :> Chars("h", "i")) @@ ("author" :> Obj1("name", Chars("E", "d")))
                  @@ ("interactionStatistic" :> Stat(JStr(S_LikeHttp), 1))),
            Chars("x", "y")>>),
    JList(<<JDict(("text" :> Chars("h", "i")) @@ ("author" :> Chars("E", "d")))>>) }

PostNodes ==
  { JDict(("@type" :> JStr(S_DiscussionForumPosting)) @@ h @@ au @@ c @@ s) :
      h \in Opt("headline", {Chars("H", "1"), JNum(7)}),
      au \in Opt("author", PostAuthors),
      c \in Opt("comment", CommentShapes),
      s \in Opt("interactionStatistic", ListStats) }

ArticleNodes ==
  { JDict(("@type" :> JStr(S_Article)) @@ n @@ i @@ au @@ s) :
      n \in Opt("name", {Chars("N", "1")}),
      i \in Opt("image", {Obj1("url", Chars("i", "m"))}),
      au \in Opt("author", {JDict(("name" :> Chars("B", "o")) @@ f) :
                              f \in Opt("interactionStatistic", FollowStats)}),
      s \in Opt("interactionStatistic", ListStats) }

\* graph containers: a list of typed nodes under @graph, no @type of their own
GraphOf(items) == JDict(("@context" :> Chars("c", "x")) @@ ("@graph" :> JList(items)))

OtherTrees ==
  { JList(<<>>), JNull, JNum(1), Chars("x", "y"),
    GraphOf(<<>>), GraphOf(<<WebPageNode>>), GraphOf(<<WebPageNode, Chars("x", "y")>>),
    GraphOf(<<Chars("x", "y"), WebPageNode>>),
    Obj1("@graph", JNull), Obj1("@graph", EmptyStr), Obj1("@graph", WebPageNode),
    JDict(("@type" :> JStr(<<"W","e","b","P","a","g","e">>)) @@ ("name" :> Chars("W", "p"))
          @@ ("image" :> Chars("i", "s"))),
    JDict(("@id" :> Chars("i", "d")) @@ ("image" :> Obj1("url", Chars("i", "u")))),
    JDict(("headline" :> Chars("H", "1"))
          @@ ("image" :> JDict(("contentUrl" :> Chars("i", "c")) @@ ("url" :> Chars("i", "u"))))) }

ParserTrees ==
  PersonNodes \cup OrgNodes \cup PostNodes \cup ArticleNodes \cup OtherTrees
  \cup {GraphOf(<<WebPageNode, nd>>) : nd \in PersonNodes \cup OrgNodes}
  \cup {GraphOf(<<nd, WebPageNode>>) : nd \in PostNodes \cup ArticleNodes}

UrlTypes == {"profile", "company", "post", "newsletter", "unknown"}

ParserInit ==
  /\ ppc = "ready"
  /\ p_kind \in UrlTypes
  /\ p_tree \in ParserTrees
  /\ p_result = Returned(<<>>, FALSE)
  /\ pc = "idle"
  /\ url = <<>>
  /\ page_url = S_blank
  /\ html_content = Unset
  /\ url_type = "None"
  /\ json_ld_data = Unset
  /\ meta_data = Unset
  /\ combined_data = Unset
  /\ extracted_data = Unset
  /\ reqs = <<>>
  /\ page = <<>>

ParseCall ==
  /\ ppc = "ready"
  /\ p_result' = ParseByType(p_kind, p_tree)
  /\ ppc' = "parsed"
  /\ UNCHANGED <<p_kind, p_tree>>
  /\ UNCHANGED <<pipeVars, overlapVars>>

ParserNext == ParseCall

SpecParser == ParserInit /\ [][ParserNext]_vars

----------------------------------------------------------------------------
(* Two calls of extract_linkedin_data overlapping on one extractor.  A     *)
(* call is suspended at its awaits of the browser (navigation, the sleep,  *)
(* the page content); from the return of the page content to its own       *)
(* return it runs without suspension, the coroutines it awaits never       *)
(* yielding.  Both calls drive the one page of self.browser_manager.       *)

Reqs == {1, 2}

S_asmith == <<"a","s","m","i","t","h">>

OverlapUrls ==
  { S_host \o <<"/","i","n","/">> \o Jdoe,
    S_host \o <<"/","i","n","/">> \o S_asmith,
    S_host \o <<"/","c","o","m","p","a","n","y","/","a","c","/","a","b","o","u","t">>,
    S_host \o <<"/","n","e","w","s","l","e","t","t","e","r","s","/","a","i","-","7">> }

\* the structured-data tree of the page at u
TreeOf(u) ==
  CASE detect_url_type(u) = "profile" ->
         JDict(("@type" :> JStr(S_Person)) @@ ("name" :> JStr(SubSeq(u, Len(S_host) + 5, Len(u)))))
    [] detect_url_type(u) = "company" -> TOrgGraph
    [] OTHER -> TNoTarget

\* the page the site serves at u: one structured-data block, and the page's
\* own address as its og:url
PageOf(u) ==
  [scripts |-> <<[kind |-> "valid", tree |-> TreeOf(u)]>>,
   metas |-> <<Meta(JNull, JStr(S_og_url), JStr(u))>>,
   title |-> JNull, rejected |-> FALSE]

IdleReq ==
  [pc |-> "idle", url |-> <<>>, url_type |-> "None", json_ld_data |-> Unset,
   meta_data |-> Unset, combined_data |-> Unset, extracted_data |-> Unset]

OverlapInit ==
  /\ reqs = [r \in Reqs |-> IdleReq]
  /\ page = [url |-> S_blank, content |-> RejectedDoc]
  /\ pc = "idle"
  /\ url = <<>>
  /\ page_url = S_blank
  /\ html_content = Unset
  /\ url_type = "None"
  /\ json_ld_data = Unset
  /\ meta_data = Unset
  /\ combined_data = Unset
  /\ extracted_data = Unset
  /\ ppc = "unused"
  /\ p_kind = "None"
  /\ p_tree = JNull
  /\ p_result = Returned(<<>>, FALSE)

\* call r's navigation to u completes; the call goes on to its sleep
NavigateReq(r, u) ==
  /\ reqs[r].pc = "idle"
  /\ page' = [url |-> u, content |-> PageOf(u)]
  /\ reqs' = [reqs EXCEPT ![r] = [@ EXCEPT !.pc = "sleeping", !.url = u]]
  /\ UNCHANGED <<pipeVars, parserVars>>

\* call r's navigation raises: the except clause returns the error envelope
FetchFaultReq(r, u) ==
  /\ reqs[r].pc = "idle"
  /\ reqs' = [reqs EXCEPT ![r] =
                [@ EXCEPT !.pc = "done", !.url = u, !.extracted_data = ErrorEnvelope(u)]]
  /\ UNCHANGED page
  /\ UNCHANGED <<pipeVars, parserVars>>

\* the envelope of a call that got its page content, lines 41 to 72
FinishedReq(u, content, purl) ==
  LET ut == detect_url_type(u)
      jld == IF SoupRejects(content) THEN NotFound
             ELSE extract_json_ld_data(content.scripts, ut)
      md == extract_meta_data(content)
      cd == combine_data_sources(jld, md, ut, purl)
  IN IF SoupRejects(content)
     THEN [pc |-> "done", url |-> u, url_type |-> ut, json_ld_data |-> jld,
           meta_data |-> Unset, combined_data |-> Unset, extracted_data |-> ErrorEnvelope(u)]
     ELSE [pc |-> "done", url |-> u, url_type |-> ut, json_ld_data |-> jld,
           meta_data |-> md, combined_data |-> cd,
           extracted_data |->
             [Envelope(u, ut, FALSE) EXCEPT !.json_ld_data = jld, !.meta_data = md,
                !.combined_data = cd, !.extraction_success = SuccessFlag(jld, cd)]]

\* call r wakes from its sleep, gets the content of the page as it is now and
\* runs to its return; the reconciler reads the page's URL as it is now
FinishReq(r) ==
  /\ reqs[r].pc = "sleeping"
  /\ reqs' = [reqs EXCEPT ![r] = FinishedReq(reqs[r].url, page.content, page.url)]
  /\ UNCHANGED page
  /\ UNCHANGED <<pipeVars, parserVars>>

OverlapNext ==
  \/ \E r \in Reqs, u \in OverlapUrls : NavigateReq(r, u)
  \/ \E r \in Reqs, u \in OverlapUrls : FetchFaultReq(r, u)
  \/ \E r \in Reqs : FinishReq(r)

SpecOverlap == OverlapInit /\ [][OverlapNext]_vars

----------------------------------------------------------------------------
(* Properties of the request pipeline (Spec).                              *)

\* the request got past the fetch and _extract_json_ld_data has returned
Extracted ==
  pc \in {"jsonld", "meta", "combined", "done"} /\ "error" \notin DOMAIN extracted_data

\* _combine_data_sources has returned
Reconciled ==
  pc \in {"combined", "done"} /\ "error" \notin DOMAIN extracted_data

\* C1: a returned envelope is marked successful exactly when the structured-data
\* extractor reported found = true, whatever the entity parser returned and
\* whatever the reconciler put into the combined record; the error envelope of
\* a request that ended in the except clause carries no success mark.
C1_SuccessIffFound ==
  pc = "done" =>
    IF "error" \in DOMAIN extracted_data
    THEN "extraction_success" \notin DOMAIN extracted_data
    ELSE /\ extracted_data.json_ld_data = json_ld_data
         /\ extracted_data.extraction_success = json_ld_data.found

\* a request returned as not successful although the reconciler's newsletter
\* fallback and identifier backfill filled the combined record
C1_Witness ==
  /\ pc = "done"
  /\ "extraction_success" \in DOMAIN extracted_data
  /\ ~extracted_data.extraction_success
  /\ {"name", "author", "username"} \subseteq DOMAIN extracted_data.combined_data

FailsParsing(c) == c.kind \in {"malformed", "raises"}

\* C2: when the candidates are any number of candidates on which json.loads
\* fails followed by one valid candidate, the extractor ends with found = true
\* and raw_json equal to the valid candidate's tree.
C2_ValidAfterFailuresIsUsed ==
  (/\ Extracted
   /\ Len(html_content.scripts) >= 1
   /\ html_content.scripts[Len(html_content.scripts)].kind = "valid"
   /\ \A i \in 1..(Len(html_content.scripts) - 1) : FailsParsing(html_content.scripts[i]))
  => /\ json_ld_data.found
     /\ json_ld_data.raw_json = html_content.scripts[Len(html_content.scripts)].tree

ValidAt(scripts) == {i \in 1..Len(scripts) : scripts[i].kind = "valid"}

NonEmptyAt(scripts, ut) ==
  {i \in ValidAt(scripts) : ParseByType(ut, scripts[i].tree).data # <<>>}

\* C3 as stated: the block used is the first candidate that parses as JSON and
\* yields a non-empty parse; a candidate with an empty parse is not the one used.
C3_FirstNonEmptyParseIsUsed ==
  (Extracted /\ json_ld_data.found) =>
    /\ json_ld_data.parsed_data # <<>>
    /\ NonEmptyAt(html_content.scripts, url_type) # {}
    /\ json_ld_data.raw_json
         = html_content.scripts[SetMin(NonEmptyAt(html_content.scripts, url_type))].tree

\* C3 as amended: at most one block is used; whenever found = true it is the
\* first candidate, in document order, that parses as valid JSON, whether its
\* parse is empty or not, and every later candidate is ignored; with
\* found = false no block is recorded.
C3_FirstValidJsonIsUsed ==
  Extracted =>
    IF json_ld_data.found
    THEN /\ ValidAt(html_content.scripts) # {}
         /\ json_ld_data.raw_json
              = html_content.scripts[SetMin(ValidAt(html_content.scripts))].tree
    ELSE json_ld_data.raw_json = JNull /\ json_ld_data.parsed_data = <<>>

\* the block used has an empty parse although a later candidate has a non-empty one
C3_Witness ==
  /\ Extracted
  /\ json_ld_data.found
  /\ json_ld_data.parsed_data = <<>>
  /\ NonEmptyAt(html_content.scripts, url_type) # {}

DescriptionKeys ==
  { <<"og", S_og_description, "og_description">>,
    <<"tw", S_twitter_description, "twitter_description">> }

SourceBucket(which) == IF which = "og" THEN meta_data.open_graph ELSE meta_data.twitter

\* C4: with found = true every field the entity parser produced is in the
\* combined record with its value unchanged, and every supplementary
\* description the meta buckets hold (social-preview, alternate namespace,
\* page meta-description) is in the combined record under its own prefixed key.
C4_MergeIsAdditive ==
  (Reconciled /\ json_ld_data.found) =>
    /\ \A k \in DOMAIN json_ld_data.parsed_data :
         k \in DOMAIN combined_data /\ combined_data[k] = json_ld_data.parsed_data[k]
    /\ \A d \in DescriptionKeys :
         d[2] \in DOMAIN SourceBucket(d[1]) =>
           d[3] \in DOMAIN combined_data /\ combined_data[d[3]] = SourceBucket(d[1])[d[2]]
    /\ "page_description" \in DOMAIN combined_data
    /\ combined_data["page_description"] = meta_data.description

\* an entity description and a different social-preview description, side by side
C4_Witness ==
  /\ Reconciled
  /\ json_ld_data.found
  /\ "description" \in DOMAIN json_ld_data.parsed_data
  /\ Truthy(json_ld_data.parsed_data["description"])
  /\ S_og_description \in DOMAIN meta_data.open_graph
  /\ combined_data["og_description"] # combined_data["description"]
  /\ combined_data["page_description"] # combined_data["description"]

FallbackKeys == {"name", "description", "image_url", "url", "author", "date_published"}

\* C5: unless found = false and url_type is newsletter, none of the fallback
\* fields is synthesized: each of them is in the combined record only as the
\* entity parser produced it, and is absent when the parser did not produce it.
C5_FallbackOnlyWhenNotFoundNewsletter ==
  (Reconciled /\ ~(url_type = "newsletter" /\ ~json_ld_data.found)) =>
    \A k \in FallbackKeys :
      IF json_ld_data.found /\ k \in DOMAIN json_ld_data.parsed_data
      THEN k \in DOMAIN combined_data /\ combined_data[k] = json_ld_data.parsed_data[k]
      ELSE k \notin DOMAIN combined_data

\* a newsletter page with found = true, an empty parse and social-preview tags:
\* nothing is synthesized
C5_Witness ==
  /\ Reconciled
  /\ url_type = "newsletter"
  /\ json_ld_data.found
  /\ json_ld_data.parsed_data = <<>>
  /\ S_og_title \in DOMAIN meta_data.open_graph
  /\ FallbackKeys \cap DOMAIN combined_data = {}

Sentinel == JDict(("name" :> JStr(S_NA)) @@ ("url" :> JStr(S_NA)))

OgValue(key) ==
  IF key \in DOMAIN meta_data.open_graph THEN meta_data.open_graph[key] ELSE EmptyStr

HasBar(s) == \E i \in 1..Len(s) : s[i] = "|"

Synthesized ==
  /\ FallbackKeys \subseteq DOMAIN combined_data
  /\ combined_data["description"] = OgValue(S_og_description)
  /\ combined_data["image_url"] = OgValue(S_og_image)
  /\ combined_data["url"] = OgValue(S_og_url)
  /\ combined_data["author"] = Sentinel
  /\ combined_data["date_published"] = JStr(S_NA)
  /\ IsStr(combined_data["name"])
  /\ IF HasBar(OgValue(S_og_title).v)
     THEN /\ ~HasBar(combined_data["name"].v)
          /\ Contains(combined_data["name"].v, OgValue(S_og_title).v)
     ELSE combined_data["name"] = OgValue(S_og_title)

\* C6 as stated: for a newsletter with no structured data the combined record
\* holds the synthesized fields for every MetaBucket, the empty one included.
C6_FallbackForEveryMetaBucket ==
  (Reconciled /\ url_type = "newsletter" /\ ~json_ld_data.found) => Synthesized

\* C6 as amended: the fields are synthesized when, in addition, the
\* social-preview bucket holds at least one entry; with an empty bucket no
\* fallback field is added.
C6_FallbackWithSocialPreview ==
  (Reconciled /\ url_type = "newsletter" /\ ~json_ld_data.found) =>
    IF DOMAIN meta_data.open_graph # {}
    THEN Synthesized
    ELSE FallbackKeys \cap DOMAIN combined_data = {}

\* name, description and sentinels synthesized from a bucket with og:title and og:description
C6_Witness ==
  /\ Reconciled
  /\ url_type = "newsletter"
  /\ ~json_ld_data.found
  /\ S_og_description \in DOMAIN meta_data.open_graph
  /\ "name" \in DOMAIN combined_data
  /\ combined_data["name"] = JStr(<<"A","I"," ","I","n","s","i","d","e","r">>)
  /\ combined_data["description"] # meta_data.description
  /\ combined_data["author"] = Sentinel

\* seg is a run of characters other than '/' and '?' that follows lit in u and
\* ends at a '/', at a '?' or at the end of u
IsSegmentAfter(lit, seg, u) ==
  /\ seg # <<>>
  /\ \A i \in 1..Len(seg) : seg[i] \notin {"/", "?"}
  /\ \E i \in 1..Len(u) :
       /\ i + Len(lit) + Len(seg) - 1 <= Len(u)
       /\ SubSeq(u, i, i + Len(lit) + Len(seg) - 1) = lit \o seg
       /\ \/ i + Len(lit) + Len(seg) - 1 = Len(u)
          \/ u[i + Len(lit) + Len(seg)] \in {"/", "?"}

HasSegmentAfter(lit, u) ==
  \E i \in 1..Len(u) :
    /\ i + Len(lit) <= Len(u)
    /\ SubSeq(u, i, i + Len(lit) - 1) = lit
    /\ u[i + Len(lit)] \notin {"/", "?"}

Marker(ut) ==
  CASE ut = "profile" -> S_re_in
    [] ut = "company" -> S_re_company
    [] OTHER -> S_re_newsletters

UrlExample == S_host \o <<"/","i","n","/">> \o Jdoe \o <<"?","t","r","k","=","a","b","c">>

\* C7: the combined record of a profile, an organization or a newsletter gets
\* as identifier the segment of the request URL after /in/, /company/ or
\* /newsletters/, ending at the next '/' or '?' (.../in/jdoe?trk=abc gives
\* jdoe), and none when no such segment exists; a post and any other url_type
\* get no identifier.
C7_IdentifierBackfill ==
  Reconciled =>
    /\ IF url_type \in {"profile", "company", "newsletter"}
          /\ HasSegmentAfter(Marker(url_type), url)
       THEN /\ "username" \in DOMAIN combined_data
            /\ IsStr(combined_data["username"])
            /\ IsSegmentAfter(Marker(url_type), combined_data["username"].v, url)
       ELSE "username" \notin DOMAIN combined_data
    /\ url = UrlExample =>
         "username" \in DOMAIN combined_data /\ combined_data["username"] = JStr(Jdoe)

\* the identifier jdoe backfilled from .../in/jdoe?trk=abc
C7_Witness ==
  /\ Reconciled
  /\ url = UrlExample
  /\ url_type = "profile"
  /\ "username" \in DOMAIN combined_data
  /\ combined_data["username"] = JStr(Jdoe)

----------------------------------------------------------------------------
(* Properties of the entity parsers (SpecParser).                          *)

TargetType(kind) ==
  CASE kind = "profile" -> S_Person
    [] kind = "company" -> S_Organization
    [] kind = "post" -> S_DiscussionForumPosting
    [] kind = "newsletter" -> S_Article
    [] OTHER -> <<>>

IsTarget(kind, node) ==
  IsDict(node) /\ HasKey(node, "@type") /\ node.v["@type"] = JStr(TargetType(kind))

\* the places of the target-typed nodes in the list under @graph
TargetsInGraph(kind, tree) ==
  {i \in 1..Len(tree.v["@graph"].v) : IsTarget(kind, tree.v["@graph"].v[i])}

IsGraphList(tree) ==
  IsDict(tree) /\ HasKey(tree, "@graph") /\ IsList(tree.v["@graph"])

\* the node the parser of kind extracts its fields from, JNull when there is none
ReadNode(kind, tree) ==
  IF ~IsDict(tree) THEN JNull
  ELSE IF kind \in {"profile", "company"} /\ HasKey(tree, "@graph")
  THEN IF /\ IsList(tree.v["@graph"])
          /\ TargetsInGraph(kind, tree) # {}
          /\ \A i \in 1..SetMin(TargetsInGraph(kind, tree)) : IsDict(tree.v["@graph"].v[i])
       THEN tree.v["@graph"].v[SetMin(TargetsInGraph(kind, tree))]
       ELSE JNull
  ELSE IF kind = "unknown" THEN tree
  ELSE IF IsTarget(kind, tree) THEN tree
  ELSE JNull

\* the node whose interactionStatistic the follower rule of kind reads
FollowerNode(kind, tree) ==
  IF ReadNode(kind, tree) = JNull THEN JNull
  ELSE IF kind = "profile" THEN ReadNode(kind, tree)
  ELSE IF /\ kind \in {"post", "newsletter"}
          /\ HasKey(ReadNode(kind, tree), "author")
          /\ IsDict(ReadNode(kind, tree).v["author"])
       THEN ReadNode(kind, tree).v["author"]
       ELSE JNull

FollowerKey(kind) == IF kind = "profile" THEN "followers" ELSE "author_followers"

\* C8: in the profile, post-author and article-author parsers an interaction
\* type equal to the follow-action string with the https:// or the http://
\* prefix is accepted, any other string is rejected, and the follower count
\* is set exactly when the type is accepted.
C8_FollowAcceptsBothSchemes ==
  (/\ ppc = "parsed"
   /\ ~p_result.fault
   /\ FollowerNode(p_kind, p_tree) # JNull
   /\ HasKey(FollowerNode(p_kind, p_tree), "interactionStatistic")
   /\ IsDict(FollowerNode(p_kind, p_tree).v["interactionStatistic"])
   /\ HasKey(FollowerNode(p_kind, p_tree).v["interactionStatistic"], "interactionType"))
  => (FollowerKey(p_kind) \in DOMAIN p_result.data
      <=> FollowerNode(p_kind, p_tree).v["interactionStatistic"].v["interactionType"]
            \in {JStr(S_FollowHttps), JStr(S_FollowHttp)})

BaseKeys(kind) ==
  CASE kind = "profile" -> {"name", "job_title", "description", "url"}
    [] kind = "post" -> {"headline", "article_body", "date_published", "url", "comment_count"}
    [] kind = "newsletter" ->
         {"headline", "name", "url", "date_published", "date_modified", "comment_count"}
    [] OTHER -> {}

\* the keys a profile parse assigns after the employer list
AfterWorksFor == {"works_for", "followers"}

IsGraphWithoutTarget(kind, tree) ==
  /\ IsGraphList(tree)
  /\ ~HasKey(tree, "@type")
  /\ TargetsInGraph(kind, tree) = {}

\* C10 as stated: every parser, the generic one included, returns an empty
\* mapping for a graph container without a node of its target type.
C10_NoTargetGivesEmpty ==
  (ppc = "parsed" /\ IsGraphWithoutTarget(p_kind, p_tree)) => p_result.data = <<>>

CommonKeys == {"name", "description", "url", "headline", "datePublished"}

\* C10 as amended: the profile, organization, post and article parsers return
\* an empty mapping; the generic parser returns type, context and id (the
\* empty string where the container has none) with the common fields the
\* container itself holds.
C10_NoTargetEmptyExceptGeneric ==
  (ppc = "parsed" /\ IsGraphWithoutTarget(p_kind, p_tree)) =>
    IF p_kind = "unknown"
    THEN /\ ~p_result.fault
         /\ DOMAIN p_result.data
              = {"type", "context", "id"} \cup (CommonKeys \cap DOMAIN p_tree.v)
                \cup (IF HasKey(p_tree, "image") THEN {"image_url"} ELSE {})
         /\ p_result.data["type"] = EmptyStr
         /\ p_result.data["context"] = Get(p_tree, "@context", EmptyStr)
    ELSE p_result.data = <<>>

\* the profile parser on a container whose only node is of another type
C10_Witness ==
  /\ ppc = "parsed"
  /\ p_kind = "profile"
  /\ IsGraphWithoutTarget(p_kind, p_tree)
  /\ Len(p_tree.v["@graph"].v) >= 1
  /\ IsDict(p_tree.v["@graph"].v[1])
  /\ p_result.data = <<>>
  /\ ~p_result.fault

Field(f, k, d) == [f |-> f, k |-> k, d |-> d]

\* the fields a parser assigns with dict.get(key, default) as soon as it has
\* its target node: result key, source key, default
BaseFields(kind) ==
  CASE kind = "profile" ->
         { Field("name", "name", EmptyStr), Field("job_title", "jobTitle", EmptyList),
           Field("description", "description", EmptyStr), Field("url", "url", EmptyStr) }
    [] kind = "company" ->
         { Field("name", "name", EmptyStr), Field("description", "description", EmptyStr),
           Field("url", "url", EmptyStr), Field("slogan", "slogan", EmptyStr) }
    [] kind = "post" ->
         { Field("headline", "headline", EmptyStr), Field("article_body", "articleBody", EmptyStr),
           Field("date_published", "datePublished", EmptyStr), Field("url", "@id", EmptyStr),
           Field("comment_count", "commentCount", JNum(0)) }
    [] kind = "newsletter" ->
         { Field("headline", "headline", EmptyStr), Field("name", "name", EmptyStr),
           Field("url", "url", EmptyStr), Field("date_published", "datePublished", EmptyStr),
           Field("date_modified", "dateModified", EmptyStr),
           Field("comment_count", "commentCount", JNum(0)) }
    [] OTHER ->
         { Field("type", "@type", EmptyStr), Field("context", "@context", EmptyStr),
           Field("id", "@id", EmptyStr) }

\* the fields a parser assigns under a test of the source key: result key,
\* the key of the node the test is on
GuardedFields(kind) ==
  CASE kind = "profile" ->
         { <<"image_url", "image">>, <<"location", "address">>, <<"country", "address">>,
           <<"works_for", "worksFor">>, <<"followers", "interactionStatistic">> }
    [] kind = "company" ->
         { <<"logo_url", "logo">>, <<"address", "address">>,
           <<"employee_count", "numberOfEmployees">> }
    [] kind = "post" ->
         { <<"author", "author">>, <<"author_followers", "author">>, <<"comments", "comment">>,
           <<"likes", "interactionStatistic">>, <<"comments_count", "interactionStatistic">> }
    [] kind = "newsletter" ->
         { <<"image_url", "image">>, <<"author", "author">>, <<"author_followers", "author">>,
           <<"likes", "interactionStatistic">>, <<"comments_count", "interactionStatistic">> }
    [] OTHER ->
         { <<k, k>> : k \in CommonKeys } \cup { <<"image_url", "image">> }

\* C11 as stated: every field of the returned mapping comes from a key the
\* source node holds; a key absent from the node gives no field.
C11_NoFabricatedField ==
  (ppc = "parsed" /\ ReadNode(p_kind, p_tree) # JNull) =>
    \A fd \in BaseFields(p_kind) :
      fd.f \in DOMAIN p_result.data => HasKey(ReadNode(p_kind, p_tree), fd.k)

\* C11 as amended: once the parser has its target node, every base field is
\* in the returned mapping, with the node's value where the node holds the
\* source key and with the default of dict.get ('' , [] or 0) where it does
\* not; every other field of the mapping is one the parser assigns under a
\* test of its source key, and that key is in the node.
C11_AbsentKeyGivesDefault ==
  (ppc = "parsed" /\ ReadNode(p_kind, p_tree) # JNull) =>
    /\ \A fd \in BaseFields(p_kind) :
         /\ fd.f \in DOMAIN p_result.data
         /\ p_result.data[fd.f] = Get(ReadNode(p_kind, p_tree), fd.k, fd.d)
    /\ \A f \in DOMAIN p_result.data :
         \/ \E fd \in BaseFields(p_kind) : fd.f = f /\ HasKey(ReadNode(p_kind, p_tree), fd.k)
         \/ \E fd \in BaseFields(p_kind) :
              fd.f = f /\ ~HasKey(ReadNode(p_kind, p_tree), fd.k) /\ p_result.data[f] = fd.d
         \/ \E g \in GuardedFields(p_kind) : g[1] = f /\ HasKey(ReadNode(p_kind, p_tree), g[2])

\* a Person node without a name parsed into a profile whose name is ''
C11_Witness ==
  /\ ppc = "parsed"
  /\ p_kind = "profile"
  /\ ReadNode(p_kind, p_tree) # JNull
  /\ ~HasKey(ReadNode(p_kind, p_tree), "name")
  /\ "name" \in DOMAIN p_result.data
  /\ p_result.data["name"] = EmptyStr

----------------------------------------------------------------------------
(* Properties of the reconciler's supplement step (Spec).                  *)

\* the supplementary keys and the meta names they are read from
OgKeys ==
  { <<"og_title", S_og_title>>, <<"og_description", S_og_description>>,
    <<"og_image", S_og_image>>, <<"og_url", S_og_url>>, <<"og_type", S_og_type>> }

TwitterKeys ==
  { <<"twitter_title", S_twitter_title>>, <<"twitter_description", S_twitter_description>>,
    <<"twitter_image", S_twitter_image>> }

PageKeys == {"page_title", "page_description"}

KeysOf(pairs) == {kp[1] : kp \in pairs}

\* C12 as stated: for every MetaBucket the combined record holds all ten
\* supplementary keys, with an empty value where the source is absent.
C12_SupplementaryKeysAlways ==
  Reconciled =>
    /\ KeysOf(OgKeys) \cup KeysOf(TwitterKeys) \cup PageKeys \subseteq DOMAIN combined_data
    /\ \A kp \in OgKeys : combined_data[kp[1]] = BucketGet(meta_data.open_graph, kp[2])
    /\ \A kp \in TwitterKeys : combined_data[kp[1]] = BucketGet(meta_data.twitter, kp[2])

\* C12 as amended: the page title and page meta-description are always in the
\* combined record; the five social-preview keys are in it exactly when the
\* social-preview bucket holds an entry, and the three alternate-namespace
\* keys exactly when that bucket holds an entry; a key of a non-empty bucket
\* whose tag is absent holds the empty string.
C12_SupplementaryKeysPerBucket ==
  Reconciled =>
    /\ PageKeys \subseteq DOMAIN combined_data
    /\ combined_data["page_title"] = meta_data.title
    /\ combined_data["page_description"] = meta_data.description
    /\ IF DOMAIN meta_data.open_graph # {}
       THEN \A kp \in OgKeys :
              /\ kp[1] \in DOMAIN combined_data
              /\ combined_data[kp[1]] = BucketGet(meta_data.open_graph, kp[2])
       ELSE KeysOf(OgKeys) \cap DOMAIN combined_data = {}
    /\ IF DOMAIN meta_data.twitter # {}
       THEN \A kp \in TwitterKeys :
              /\ kp[1] \in DOMAIN combined_data
              /\ combined_data[kp[1]] = BucketGet(meta_data.twitter, kp[2])
       ELSE KeysOf(TwitterKeys) \cap DOMAIN combined_data = {}

\* a page with social-preview tags and no alternate-namespace tag: the
\* social-preview keys are there, the absent description as '', and no
\* alternate-namespace key is
C12_Witness ==
  /\ Reconciled
  /\ DOMAIN meta_data.open_graph # {}
  /\ DOMAIN meta_data.twitter = {}
  /\ "og_description" \in DOMAIN combined_data
  /\ combined_data["og_description"] = EmptyStr
  /\ "twitter_title" \notin DOMAIN combined_data
  /\ "page_title" \in DOMAIN combined_data

----------------------------------------------------------------------------
(* Properties of the meta-tag extractor (Spec).                            *)

\* _extract_meta_data has returned
MetaExtracted ==
  pc \in {"meta", "combined", "done"} /\ "error" \notin DOMAIN extracted_data

\* the element has a name or property attribute and a content attribute
HasPair(meta) ==
  (meta.name # JNull \/ meta.property # JNull) /\ meta.content # JNull

BucketNames == {"open_graph", "twitter", "other_meta"}

\* the bucket a meta name belongs to
BucketOf(n) ==
  IF StartsWith(n, S_og_prefix) THEN "open_graph"
  ELSE IF StartsWith(n, S_twitter_prefix) THEN "twitter"
  ELSE "other_meta"

\* the buckets of md that hold the name n
HoldersOf(md, n) == {b \in BucketNames : n \in DOMAIN md[b]}

\* the elements whose name and content are both non-empty
Kept(metas) ==
  {i \in 1..Len(metas) : Truthy(MetaName(metas[i])) /\ Truthy(metas[i].content)}

SetMax(S) == CHOOSE m \in S : \A n \in S : n <= m

\* C13 as stated: every element with a name (or property) and a content
\* attribute is stored in exactly one bucket, also when its content is ''.
C13_NoEntryDroppedForEmpty ==
  MetaExtracted =>
    \A i \in 1..Len(html_content.metas) :
      HasPair(html_content.metas[i]) =>
        /\ IsStr(MetaName(html_content.metas[i]))
        /\ HoldersOf(meta_data, MetaName(html_content.metas[i]).v)
             = {BucketOf(MetaName(html_content.metas[i]).v)}

\* C13 as amended: an element is stored exactly when its name (the property
\* where the name is absent or empty) and its content are both non-empty; it
\* is then in exactly one bucket, the one of its prefix, with the content of
\* the last such element of that name; an element whose content or name is
\* empty or absent is skipped.
C13_OnlyNonEmptyPairsKept ==
  MetaExtracted =>
    /\ \A i \in Kept(html_content.metas) :
         LET n == MetaName(html_content.metas[i]).v
             same == {j \in Kept(html_content.metas) : MetaName(html_content.metas[j]).v = n}
         IN /\ HoldersOf(meta_data, n) = {BucketOf(n)}
            /\ meta_data[BucketOf(n)][n] = html_content.metas[SetMax(same)].content
    /\ \A b \in BucketNames : \A n \in DOMAIN meta_data[b] :
         \E i \in Kept(html_content.metas) : MetaName(html_content.metas[i]).v = n

\* a page whose description element has the content '': the element is in no
\* bucket, while the elements with a value are
C13_Witness ==
  /\ MetaExtracted
  /\ \E i \in 1..Len(html_content.metas) :
       /\ HasPair(html_content.metas[i])
       /\ html_content.metas[i].content = EmptyStr
       /\ HoldersOf(meta_data, MetaName(html_content.metas[i]).v) = {}
  /\ DOMAIN meta_data.open_graph # {}

----------------------------------------------------------------------------
(* Properties of the request's error handling (Spec).                      *)

\* the request left the try block before line 41: navigation or page
\* retrieval raised, and the URL was never classified
FetchFaulted == url_type = "None"

\* C14: a request ends with the minimal error envelope (url, an error
\* description, no combined record) exactly when navigation or page retrieval
\* faulted; a fault in one of the later steps still gives the full envelope.
C14_OnlyFetchFaultAborts ==
  pc = "done" =>
    IF FetchFaulted
    THEN DOMAIN extracted_data = {"url", "error", "success"}
    ELSE /\ "error" \notin DOMAIN extracted_data
         /\ {"json_ld_data", "meta_data", "combined_data", "extraction_success"}
              \subseteq DOMAIN extracted_data

----------------------------------------------------------------------------
(* Properties of the newsletter fallback's name (Spec).                    *)

\* the newsletter fallback synthesized its fields
FellBack ==
  /\ Reconciled
  /\ url_type = "newsletter"
  /\ ~json_ld_data.found
  /\ DOMAIN meta_data.open_graph # {}

AllWhitespace(s, from, to) == \A i \in from..to : s[i] \in Whitespace

\* name is what stands before the bar at place k of title, without the
\* whitespace around it
IsTrimmedBefore(name, title, k) ==
  /\ title[k] = "|"
  /\ \A i \in 1..Len(name) : name[i] # "|"
  /\ name # <<>> => name[1] \notin Whitespace /\ name[Len(name)] \notin Whitespace
  /\ \E i \in 1..k :
       /\ i + Len(name) <= k
       /\ SubSeq(title, i, i + Len(name) - 1) = name
       /\ AllWhitespace(title, 1, i - 1)
       /\ AllWhitespace(title, i + Len(name), k - 1)

S_AI_Insider == <<"A","I"," ","I","n","s","i","d","e","r">>

\* C15: the fallback's name is the part of the social-preview title before
\* its first vertical bar with the surrounding whitespace trimmed; a title
\* without a vertical bar (an absent title, '', included) is the name as it
\* is, whitespace and all.
C15_NameIsFirstSegmentTrimmed ==
  FellBack =>
    /\ "name" \in DOMAIN combined_data
    /\ IsStr(combined_data["name"])
    /\ IF HasBar(OgValue(S_og_title).v)
       THEN \E k \in 1..Len(OgValue(S_og_title).v) :
              IsTrimmedBefore(combined_data["name"].v, OgValue(S_og_title).v, k)
       ELSE combined_data["name"] = OgValue(S_og_title)
    /\ OgValue(S_og_title) = JStr(T_AI) => combined_data["name"] = JStr(S_AI_Insider)

\* the title "AI Insider | LinkedIn" gave the name "AI Insider"
C15_Witness ==
  /\ FellBack
  /\ OgValue(S_og_title) = JStr(T_AI)
  /\ "name" \in DOMAIN combined_data
  /\ combined_data["name"] = JStr(S_AI_Insider)

----------------------------------------------------------------------------
(* Properties of overlapping requests (SpecOverlap).                       *)

\* what the request for u returns when no other request runs
AloneReq(u) == FinishedReq(u, PageOf(u), u)

\* C16: the two extraction steps read only the request's own HTML text, and
\* two requests for different URLs share no state one writes and the other
\* reads: each request returns the json_ld_data, the meta_data and the
\* combined record it returns when it runs alone.
C16_RequestsShareNoState ==
  \A r \in Reqs :
    (/\ reqs[r].pc = "done"
     /\ "error" \notin DOMAIN reqs[r].extracted_data
     /\ \A o \in Reqs \ {r} : reqs[o].url # reqs[r].url)
    => /\ reqs[r].json_ld_data = AloneReq(reqs[r].url).json_ld_data
       /\ reqs[r].meta_data = AloneReq(reqs[r].url).meta_data
       /\ reqs[r].combined_data = AloneReq(reqs[r].url).combined_data

----------------------------------------------------------------------------
(* Properties of the two input shapes (SpecParser).                        *)

\* the tree is a node of the parser's target type, given directly
IsDirectTarget(kind, tree) == IsTarget(kind, tree) /\ ~HasKey(tree, "@graph")

\* C17: the profile and organization parsers return for a target-typed node
\* given directly the same mapping as for a graph container whose first
\* target-typed node is that node (here after a node of another type and
\* before a second target-typed node), address, location and employer list
\* included.
C17_DirectEqualsGraph ==
  (ppc = "parsed" /\ p_kind \in {"profile", "company"} /\ IsDirectTarget(p_kind, p_tree)) =>
    p_result =
      ParseByType(p_kind,
                  GraphOf(<<WebPageNode, p_tree, Obj1("@type", JStr(TargetType(p_kind)))>>))

====
